---- MODULE Spec2Model ----
(***************************************************************************)
(* Beacon discovery of fakts: the UDP listener alisten, its deduplicating  *)
(* wrapper alisten_pure and FirstAdvertisedDiscovery.adiscover             *)
(* (src/fakts/grants/remote/discovery/advertised.py).                      *)
(*                                                                         *)
(* One adiscover call is one asyncio task.  The task is suspended at       *)
(*   "endpoint"  line 98,  await loop.create_datagram_endpoint(...)        *)
(*   "get"       line 103, await read_queue.get()                          *)
(*   "probe"     line 237, await discover_url(...), while alisten_pure is  *)
(*               suspended at its yield (174) and alisten at its yield     *)
(*               (112)                                                     *)
(* and between two suspension points it runs without interleaving.  The    *)
(* event loop delivers datagrams (datagram_received), the caller may       *)
(* cancel the task at a suspension point, and the event loop's             *)
(* asynchronous-generator finalizer closes a generator that was left       *)
(* suspended at a yield once nothing refers to it any more.                *)
(***************************************************************************)
EXTENDS Integers, Sequences, FiniteSets, TLC

\* ------------------------------------------------------------------ bounds
MaxDatagrams == 4
MaxSessions == 2

\* ------------------------------------------------------------- datagrams
Urls == {"u1", "u2", "u3"}
NoUrl == "-"

\* What one datagram holds, as far as alisten looks at it: whether the bytes
\* are valid UTF-8, whether the text starts with bind.magic_phrase, and what
\* the text after the phrase is: no JSON at all ("invalid"), a JSON value
\* that is no object ("nonobject"), an object without "url" ("nourl"), or an
\* object with a url ("beacon").  The frame without the magic phrase is one
\* that would be a beacon for u1 if the phrase were not tested.
Datagram(utf8, magic, json, url) ==
  [utf8 |-> utf8, magic |-> magic, json |-> json, url |-> url]

Datagrams ==
  {Datagram(FALSE, FALSE, "invalid", NoUrl),
   Datagram(TRUE, FALSE, "beacon", "u1"),
   Datagram(TRUE, TRUE, "invalid", NoUrl),
   Datagram(TRUE, TRUE, "nonobject", NoUrl),
   Datagram(TRUE, TRUE, "nourl", NoUrl)}
  \cup {Datagram(TRUE, TRUE, "beacon", u) : u \in Urls}

\* ------------------------------------------------------------ exceptions
NoExc == "none"

\* The direct base class of each exception class that occurs (Python 3.8 and
\* later, where asyncio.CancelledError derives from BaseException; pydantic's
\* ValidationError derives from ValueError).
BaseOf(cls) ==
  CASE cls = "JSONDecodeError" -> "ValueError"
    [] cls = "UnicodeDecodeError" -> "UnicodeError"
    [] cls = "UnicodeEncodeError" -> "UnicodeError"
    [] cls = "UnicodeError" -> "ValueError"
    [] cls = "ValidationError" -> "ValueError"
    [] cls = "ValueError" -> "Exception"
    [] cls = "TypeError" -> "Exception"
    [] cls = "OSError" -> "Exception"
    [] cls = "UnboundLocalError" -> "Exception"
    [] cls = "DiscoveryError" -> "Exception"
    [] cls = "Exception" -> "BaseException"
    [] cls = "CancelledError" -> "BaseException"
    [] cls = "GeneratorExit" -> "BaseException"
    [] OTHER -> "object"

RECURSIVE IsInstance(_, _)
\* `except cls` catches an exception of class e.
IsInstance(e, cls) ==
  IF e = cls THEN TRUE
  ELSE IF e \in {"object", "BaseException"} THEN FALSE
  ELSE IsInstance(BaseOf(e), cls)

\* --------------------------------------------------- one datagram, alisten
Yield(u) == [act |-> "yield", url |-> u, exc |-> NoExc]
Skip == [act |-> "skip", url |-> NoUrl, exc |-> NoExc]
Raise(e) == [act |-> "raise", url |-> NoUrl, exc |-> e]

\* Lines 110-111: json.loads, then Beacon(**endpoint).
ParseBeacon(d) ==
  CASE d.json = "invalid" -> Raise("JSONDecodeError")
    [] d.json = "nonobject" -> Raise("TypeError")
    [] d.json = "nourl" -> Raise("ValidationError")
    [] OTHER -> Yield(d.url)

\* InnerTry with the handler of line 114 raising whatever strict says.
InnerTryRaises(d, isStrict) ==
  LET r == ParseBeacon(d) IN
  IF r.act = "raise" /\ IsInstance(r.exc, "JSONDecodeError")
  THEN Raise(r.exc)
  ELSE r

\* Lines 109-117: the inner try and its handler.
InnerTry(d, isStrict) ==
  LET r == ParseBeacon(d) IN
  IF r.act = "raise" /\ IsInstance(r.exc, "JSONDecodeError")
  THEN IF isStrict THEN Raise(r.exc) ELSE Skip
  ELSE r

\* DecodeFrame without the test of line 106.
DecodeFrameAnyPrefix(d, isStrict) ==
  IF ~d.utf8 THEN Raise("UnicodeDecodeError")
  ELSE InnerTry(d, isStrict)

\* Lines 105-122: decode, test the magic phrase, parse.
DecodeFrame(d, isStrict) ==
  IF ~d.utf8 THEN Raise("UnicodeDecodeError")
  ELSE IF d.magic THEN InnerTry(d, isStrict)
  ELSE Skip

\* Lines 104-127: the try around one datagram and its handler.
HandleDatagram(d, isStrict) ==
  LET r == DecodeFrame(d, isStrict) IN
  IF r.act = "raise" /\ IsInstance(r.exc, "UnicodeEncodeError")
  THEN IF isStrict THEN Raise(r.exc) ELSE Skip
  ELSE r

\* Lines 129-137: what leaving alisten's outer try with exception e does.
\* With `transport` still unbound, transport.close() raises UnboundLocalError
\* in the handler and again in the finally block, before either s.close().
Cleanup(e, transportBound) ==
  IF ~transportBound
  THEN [tcalls |-> 0, scalls |-> 0, exc |-> "UnboundLocalError"]
  ELSE IF IsInstance(e, "CancelledError")
  THEN [tcalls |-> 2, scalls |-> 2, exc |-> e]
  ELSE [tcalls |-> 1, scalls |-> 1, exc |-> e]

\* IsNew without the test of line 172.
IsNewAlways(u, detected) == TRUE

\* Lines 172-174: alisten_pure passes a beacon on iff its url is new.
IsNew(u, detected) == u \notin detected

\* Remember forgetting the urls seen before.
RememberOnlyLast(u, detected) == {u}

\* Line 173: already_detected.add(x.url).
Remember(u, detected) == detected \cup {u}

\* ProbeCaught with a handler for network errors only.
ProbeCaughtOSError(e) == IsInstance(e, "OSError")

\* Lines 236-241: adiscover's handler around the probe.
ProbeCaught(e) == IsInstance(e, "Exception")

\* Line 97: asyncio.Queue() is created with the default maxsize, 0, which
\* asyncio takes as "no limit".
QueueMaxsize == 0

\* asyncio.Queue.full, as put_nowait (line 45) consults it.
QueueFull(q) == QueueMaxsize > 0 /\ Len(q) >= QueueMaxsize

\* QueuePut putting the datagram in front.
QueuePutFront(q, d) == IF QueueFull(q) THEN q ELSE <<d>> \o q

\* Line 45: self._recvq.put_nowait((data, addr)).
QueuePut(q, d) == IF QueueFull(q) THEN q ELSE Append(q, d)

\* The endpoint a successful probe of url u produces.
EndpointOf(u) == [base_url |-> u]
NoEndpoint == [base_url |-> NoUrl]

\* ------------------------------------------------------------------ state
VARIABLES
  strict,            \* FirstAdvertisedDiscovery.strict
  session,           \* number of adiscover calls so far
  pc,                \* where the adiscover task is
  exc,               \* the exception adiscover raised
  result,            \* the endpoint adiscover returned
  cancelAt,          \* the suspension point at which the caller cancelled
  sock,              \* s: "none", "open", "closed"
  transport,         \* transport: "unbound", "open", "closed"
  sCloseCalls,       \* completed calls of s.close()
  tCloseCalls,       \* completed calls of transport.close()
  read_queue,        \* read_queue
  already_detected,  \* already_detected
  genPure,           \* the alisten_pure generator object
  genListen,         \* the alisten generator object
  listenExc,         \* the exception that ended the alisten generator
  received,          \* history: datagrams handed to datagram_received
  listenYielded,     \* history: urls alisten yielded
  pureYielded,       \* history: urls alisten_pure yielded
  probed,            \* history: probes started, with their outcome
  beacons,           \* a finite beacon sequence given to adiscover's loop
  static_base_url,   \* StaticDiscovery.base_url
  staticReturned,    \* history: endpoints StaticDiscovery.discover returned
  caller,            \* the callers of Config.from_fakts
  flight,            \* per group key: the discovery+claim cycle
  cache,             \* per group key: the stored mapping
  cycles             \* history, per group key: cycles started

vars == <<strict, session, pc, exc, result, cancelAt, sock, transport,
          sCloseCalls, tCloseCalls, read_queue, already_detected, genPure,
          genListen, listenExc, received, listenYielded, pureYielded, probed,
          beacons, static_base_url, staticReturned, caller, flight, cache,
          cycles>>

sessionVars == <<strict, session>>
outcomeVars == <<exc, result, cancelAt>>
socketVars == <<sock, transport, sCloseCalls, tCloseCalls>>
histVars == <<received, listenYielded, pureYielded, probed>>
listenVars == <<socketVars, read_queue, already_detected, genPure, genListen,
                listenExc, received, listenYielded>>
facadeVars == <<static_base_url, staticReturned, caller, flight, cache,
                cycles>>
extraVars == <<beacons, facadeVars>>

\* ------------------------------------------------ configuration facade data
Callers == {"c1", "c2"}
Groups == {"groupA", "groupB"}
Undefined == "undefined"
NoMapping == "none"
NoToken == "none"
DefaultBaseUrl == "http://localhost:8000/f/"
BaseUrls == {DefaultBaseUrl, "http://fakts.example/f/"}

IdleCaller == [pc |-> "idle", key |-> Undefined, bypass |-> FALSE,
               cycle |-> 0, got |-> NoMapping, err |-> NoExc]
IdleFlight == [st |-> "Idle", endpoint |-> NoEndpoint, token |-> NoToken,
               claimToken |-> NoToken, claimEndpoint |-> NoEndpoint,
               mapping |-> NoMapping, err |-> NoExc]

FacadeIdle ==
  /\ staticReturned = {}
  /\ caller = [c \in Callers |-> IdleCaller]
  /\ flight = [g \in Groups |-> IdleFlight]
  /\ cache = [g \in Groups |-> NoMapping]
  /\ cycles = [g \in Groups |-> 0]

Fresh ==
  /\ pc = "idle"
  /\ exc = NoExc
  /\ result = NoEndpoint
  /\ cancelAt = "none"
  /\ sock = "none"
  /\ transport = "unbound"
  /\ sCloseCalls = 0
  /\ tCloseCalls = 0
  /\ read_queue = <<>>
  /\ already_detected = {}
  /\ genPure = "none"
  /\ genListen = "none"
  /\ listenExc = NoExc
  /\ received = <<>>
  /\ listenYielded = <<>>
  /\ pureYielded = <<>>
  /\ probed = <<>>

Init ==
  /\ strict \in BOOLEAN
  /\ session = 0
  /\ Fresh
  /\ beacons = <<>>
  /\ static_base_url = DefaultBaseUrl
  /\ FacadeIdle

\* Line 235: an exception that leaves alisten_pure's __anext__ reaches the
\* `async for` of adiscover, which no try block surrounds: adiscover raises it.
AnextRaises(e) == e

\* Lines 237-238: the endpoint returned is that of the probe in flight, the
\* last one started.
ProbedEndpoint(h) == EndpointOf(h[Len(h)].url)

\* AfterSuccess without the return of line 238: the loop goes on.
AfterSuccessContinue == "get"

\* Line 238: a successful probe ends adiscover.
AfterSuccess == "returned"

\* Line 169: the seen-set of a new alisten_pure.
NewSeenSet == {}

\* The last probe of the history, with its outcome filled in.
Finish(h, outcome) == [h EXCEPT ![Len(h)].outcome = outcome]

\* Lines 129-137 applied to the state: the close calls of Cleanup.
Release(c) ==
  /\ tCloseCalls' = tCloseCalls + c.tcalls
  /\ sCloseCalls' = sCloseCalls + c.scalls
  /\ transport' = IF c.tcalls > 0 THEN "closed" ELSE transport
  /\ sock' = IF c.scalls > 0 \/ c.tcalls > 0 THEN "closed" ELSE sock

\* ---------------------------------------------------------------- actions
\* A call of adiscover (213-235), which starts alisten_pure (169-171) and
\* alisten (92-98): the socket is created and bound, and the task suspends
\* creating the datagram endpoint.  The call is made on an idle discovery or
\* after the previous call has ended and its generators are finalized.
Adiscover(bindOk) ==
  /\ UNCHANGED extraVars
  /\ pc \in {"idle", "returned", "raised"}
  /\ genPure # "orphaned" /\ genListen # "orphaned"
  /\ session < MaxSessions
  /\ session' = session + 1
  /\ already_detected' = NewSeenSet
  /\ read_queue' = <<>>
  /\ sock' = "open"
  /\ transport' = "unbound"
  /\ sCloseCalls' = 0
  /\ tCloseCalls' = 0
  /\ result' = NoEndpoint
  /\ cancelAt' = "none"
  /\ received' = <<>>
  /\ listenYielded' = <<>>
  /\ pureYielded' = <<>>
  /\ probed' = <<>>
  /\ IF bindOk
     THEN /\ pc' = "endpoint"
          /\ exc' = NoExc
          /\ listenExc' = NoExc
          /\ genPure' = "active"
          /\ genListen' = "active"
     ELSE /\ pc' = "raised"
          /\ exc' = AnextRaises("OSError")
          /\ listenExc' = "OSError"
          /\ genPure' = "done"
          /\ genListen' = "done"
  /\ UNCHANGED strict

\* Line 98 returns: transport is bound, the loop starts at line 102.
EndpointCreated ==
  /\ UNCHANGED extraVars
  /\ pc = "endpoint"
  /\ transport' = "open"
  /\ pc' = "get"
  /\ UNCHANGED <<sessionVars, outcomeVars, sock, sCloseCalls, tCloseCalls,
                 read_queue, already_detected, genPure, genListen, listenExc,
                 histVars>>

\* Line 98 raises e with transport unbound (129-137).  The code closes
\* nothing; whether the event loop closed the socket it was handed is the
\* event loop's business: either outcome.
LeaveEndpoint(e, loopClosed) ==
  LET c == Cleanup(e, FALSE) IN
  /\ pc' = "raised"
  /\ exc' = AnextRaises(c.exc)
  /\ listenExc' = c.exc
  /\ tCloseCalls' = tCloseCalls + c.tcalls
  /\ sCloseCalls' = sCloseCalls + c.scalls
  /\ sock' = IF c.scalls > 0 \/ loopClosed THEN "closed" ELSE sock
  /\ genPure' = "done"
  /\ genListen' = "done"
  /\ UNCHANGED <<sessionVars, result, transport, read_queue,
                 already_detected, histVars>>

EndpointFails(loopClosed) ==
  /\ UNCHANGED extraVars
  /\ pc = "endpoint"
  /\ LeaveEndpoint("OSError", loopClosed)
  /\ UNCHANGED cancelAt

CancelEndpoint(loopClosed) ==
  /\ UNCHANGED extraVars
  /\ pc = "endpoint"
  /\ LeaveEndpoint("CancelledError", loopClosed)
  /\ cancelAt' = "endpoint"

\* DiscoveryProtocol.datagram_received (32-45).
DatagramReceived(d) ==
  /\ UNCHANGED extraVars
  /\ transport = "open"
  /\ Len(received) < MaxDatagrams
  /\ read_queue' = QueuePut(read_queue, d)
  /\ received' = Append(received, d)
  /\ UNCHANGED <<sessionVars, pc, outcomeVars, socketVars, already_detected,
                 genPure, genListen, listenExc, listenYielded, pureYielded,
                 probed>>

\* Line 103 returns the head of the queue; lines 104-127 handle it; a
\* yielded beacon goes through alisten_pure (172-174) to adiscover, which
\* starts the probe (237); an exception leaves alisten (129-137), then
\* alisten_pure and adiscover.
ReadQueue ==
  /\ UNCHANGED extraVars
  /\ pc = "get"
  /\ read_queue # <<>>
  /\ read_queue' = Tail(read_queue)
  /\ LET r == HandleDatagram(Head(read_queue), strict) IN
     CASE r.act = "skip" ->
            /\ pc' = "get"
            /\ UNCHANGED <<outcomeVars, socketVars, already_detected, genPure,
                           genListen, listenExc, listenYielded, pureYielded,
                           probed>>
       [] r.act = "yield" ->
            /\ listenYielded' = Append(listenYielded, r.url)
            /\ IF IsNew(r.url, already_detected)
               THEN /\ already_detected' = Remember(r.url, already_detected)
                    /\ pureYielded' = Append(pureYielded, r.url)
                    /\ probed' = Append(probed, [url |-> r.url,
                                                 outcome |-> "pending"])
                    /\ pc' = "probe"
               ELSE /\ pc' = "get"
                    /\ UNCHANGED <<already_detected, pureYielded, probed>>
            /\ UNCHANGED <<outcomeVars, socketVars, genPure, genListen,
                           listenExc>>
       [] r.act = "raise" ->
            LET c == Cleanup(r.exc, TRUE) IN
            /\ Release(c)
            /\ pc' = "raised"
            /\ exc' = AnextRaises(c.exc)
            /\ listenExc' = c.exc
            /\ genPure' = "done"
            /\ genListen' = "done"
            /\ UNCHANGED <<result, cancelAt, already_detected, listenYielded,
                           pureYielded, probed>>
  /\ UNCHANGED <<sessionVars, received>>

\* The caller cancels the task suspended at line 103 (129-137).
CancelGet ==
  /\ UNCHANGED extraVars
  /\ pc = "get"
  /\ LET c == Cleanup("CancelledError", TRUE) IN
     /\ Release(c)
     /\ exc' = AnextRaises(c.exc)
     /\ listenExc' = c.exc
  /\ pc' = "raised"
  /\ cancelAt' = "get"
  /\ genPure' = "done"
  /\ genListen' = "done"
  /\ UNCHANGED <<sessionVars, result, read_queue, already_detected, histVars>>

\* Line 237 returns the endpoint and line 238 returns it to the caller.  The
\* `async for` is left without closing alisten_pure, which stays suspended
\* at its yield with nothing referring to it.
ProbeSucceeds ==
  /\ UNCHANGED extraVars
  /\ pc = "probe"
  /\ result' = ProbedEndpoint(probed)
  /\ probed' = Finish(probed, "ok")
  /\ pc' = AfterSuccess
  /\ genPure' = "orphaned"
  /\ UNCHANGED <<sessionVars, exc, cancelAt, socketVars, read_queue,
                 already_detected, genListen, listenExc, received,
                 listenYielded, pureYielded>>

\* Line 237 raises e (239-241): a caught exception resumes alisten_pure
\* after line 174 and alisten after line 112, which waits at line 103 again;
\* any other leaves adiscover with the generators suspended at their yields.
LeaveProbe(e, outcome) ==
  /\ probed' = Finish(probed, outcome)
  /\ IF ProbeCaught(e)
     THEN /\ pc' = "get"
          /\ UNCHANGED <<exc, genPure>>
     ELSE /\ pc' = "raised"
          /\ exc' = e
          /\ genPure' = "orphaned"
  /\ UNCHANGED <<sessionVars, result, socketVars, read_queue,
                 already_detected, genListen, listenExc, received,
                 listenYielded, pureYielded>>

ProbeErrors == {"OSError", "ValueError"}

ProbeFails(e) ==
  /\ UNCHANGED extraVars
  /\ pc = "probe"
  /\ LeaveProbe(e, "failed")
  /\ UNCHANGED cancelAt

\* The caller cancels the task suspended at line 237.
CancelProbe ==
  /\ UNCHANGED extraVars
  /\ pc = "probe"
  /\ LeaveProbe("CancelledError", "cancelled")
  /\ cancelAt' = "probe"

\* The event loop's finalizer closes the unreferenced alisten_pure: it ends
\* at line 174 (GeneratorExit), and with it goes the last reference to the
\* alisten generator it was iterating.
FinalizePure ==
  /\ UNCHANGED extraVars
  /\ genPure = "orphaned"
  /\ genPure' = "done"
  /\ genListen' = "orphaned"
  /\ UNCHANGED <<sessionVars, pc, outcomeVars, socketVars, read_queue,
                 already_detected, listenExc, histVars>>

\* The finalizer closes the unreferenced alisten: GeneratorExit at line 112
\* leaves through the finally block (134-137).
FinalizeListen ==
  /\ UNCHANGED extraVars
  /\ genListen = "orphaned"
  /\ LET c == Cleanup("GeneratorExit", TRUE) IN
     /\ Release(c)
     /\ listenExc' = c.exc
  /\ genListen' = "done"
  /\ UNCHANGED <<sessionVars, pc, outcomeVars, read_queue, already_detected,
                 genPure, histVars>>

Next ==
  \/ \E bindOk \in BOOLEAN : Adiscover(bindOk)
  \/ EndpointCreated
  \/ \E loopClosed \in BOOLEAN : EndpointFails(loopClosed)
  \/ \E loopClosed \in BOOLEAN : CancelEndpoint(loopClosed)
  \/ \E d \in Datagrams : DatagramReceived(d)
  \/ ReadQueue
  \/ CancelGet
  \/ ProbeSucceeds
  \/ \E e \in ProbeErrors : ProbeFails(e)
  \/ CancelProbe
  \/ FinalizePure
  \/ FinalizeListen

Spec == Init /\ [][Next]_vars

\* ------------------------------------- adiscover over a finite sequence
\* alisten never ends normally (its loop is `while True`), so in Spec the
\* `async for` of line 235 is left only by a return or an exception.  Here
\* the loop of lines 235-243 runs over a beacon sequence that ends, as when
\* alisten_pure is replaced by a finite generator.
MaxBeacons == 3

RECURSIVE SeqsUpTo(_, _)
SeqsUpTo(S, n) ==
  IF n = 0 THEN {<<>>}
  ELSE LET shorter == SeqsUpTo(S, n - 1)
       IN shorter \cup {Append(s, x) : s \in shorter, x \in S}

\* AfterExhaustion without the raise of line 243: adiscover returns None.
AfterExhaustionReturns == [pc |-> "returned", exc |-> NoExc]

\* Line 243: the loop ended without a return.
AfterExhaustion == [pc |-> "raised", exc |-> "DiscoveryError"]

loopFrame == <<sessionVars, cancelAt, listenVars, pureYielded, facadeVars>>

\* adiscover is called (213-235).
LoopCall ==
  /\ pc = "idle"
  /\ pc' = "iter"
  /\ UNCHANGED <<loopFrame, exc, result, probed, beacons>>

\* Line 235 takes the next beacon and line 237 starts its probe.
LoopNext ==
  /\ pc = "iter"
  /\ beacons # <<>>
  /\ probed' = Append(probed, [url |-> Head(beacons), outcome |-> "pending"])
  /\ beacons' = Tail(beacons)
  /\ pc' = "probing"
  /\ UNCHANGED <<loopFrame, exc, result>>

\* Lines 237-238.
LoopProbeSucceeds ==
  /\ pc = "probing"
  /\ result' = ProbedEndpoint(probed)
  /\ probed' = Finish(probed, "ok")
  /\ pc' = AfterSuccess
  /\ UNCHANGED <<loopFrame, exc, beacons>>

\* Lines 239-241.
LoopProbeFails(e) ==
  /\ pc = "probing"
  /\ probed' = Finish(probed, "failed")
  /\ IF ProbeCaught(e)
     THEN pc' = "iter" /\ UNCHANGED exc
     ELSE pc' = "raised" /\ exc' = e
  /\ UNCHANGED <<loopFrame, result, beacons>>

\* Line 235 finds the sequence ended; line 243.
LoopEnds ==
  /\ pc = "iter"
  /\ beacons = <<>>
  /\ pc' = AfterExhaustion.pc
  /\ exc' = AfterExhaustion.exc
  /\ UNCHANGED <<loopFrame, result, probed, beacons>>

InitLoop ==
  /\ strict = FALSE
  /\ session = 0
  /\ Fresh
  /\ beacons \in SeqsUpTo(Urls, MaxBeacons)
  /\ static_base_url = DefaultBaseUrl
  /\ FacadeIdle

NextLoop ==
  \/ LoopCall
  \/ LoopNext
  \/ LoopProbeSucceeds
  \/ \E e \in ProbeErrors : LoopProbeFails(e)
  \/ LoopEnds

SpecLoop == InitLoop /\ [][NextLoop]_vars

\* ------------------------------------------------ configuration facade
\* Config.from_fakts (src/fakts/config/base.py) asks fakts.aget for the
\* mapping of its group; StaticDiscovery (src/fakts/discovery/static.py) is
\* the discovery a grant uses by default (src/fakts/grants/remote/qt/base.py).
\* The cache, the single-flight rule and the demand/claim state machine
\* behind fakts.aget follow sections 4.4, 4.5 and 5 of the specification.
MaxCycles == 2
Tokens == {"t1", "t2"}
Mappings == {"m1", "m2"}

\* StaticEndpoint ignoring the configured base_url (FaktsEndpoint's default).
StaticEndpointDefault(base) == [base_url |-> DefaultBaseUrl]

\* static.py 8-9: FaktsEndpoint(base_url=self.base_url).
StaticEndpoint(base) == [base_url |-> base]

\* config/base.py 18-21: the assertion on the group.
GroupAsserted(g) == g # Undefined

\* UseCache ignoring the bypass flag.
UseCacheAlways(cached, bypass) == cached # NoMapping

\* 4.5: the stored mapping is returned unless bypassCache is set.
UseCache(cached, bypass) == cached # NoMapping /\ ~bypass

\* InFlight never seeing a cycle in progress.
InFlightNever(f) == FALSE

\* 5: a resolution of the group key is in flight.
InFlight(f) == f.st \in {"Discovering", "Demanding", "Claiming"}

\* 4.4: Demanding -> Claiming; the Claimer is invoked with the token the
\* Demander returned and the endpoint it was given.
ClaimCall(f, t) ==
  [f EXCEPT !.st = "Claiming", !.token = t, !.claimToken = t,
            !.claimEndpoint = f.endpoint]

\* DemandFailure going on to the claim.
DemandFailureClaims(f) ==
  [f EXCEPT !.st = "Claiming", !.err = "DemandError",
            !.claimToken = "t1", !.claimEndpoint = f.endpoint]

\* 4.4: a failure of the Demander leads directly to Failed.
DemandFailure(f) == [f EXCEPT !.st = "Failed", !.err = "DemandError"]

\* The callers waiting for the cycle of group g receive its outcome.
Deliver(g, mapping, err) ==
  [c \in Callers |->
     IF caller[c].pc = "waiting" /\ caller[c].key = g
     THEN [caller[c] EXCEPT !.pc = IF err = NoExc THEN "done" ELSE "failed",
                            !.got = mapping, !.err = err]
     ELSE caller[c]]

discoveryFrame == <<sessionVars, pc, outcomeVars, listenVars, pureYielded,
                    probed, beacons>>

\* Config.from_fakts (config/base.py 15-24) and fakts.aget (4.5, 5).
FromFakts(c, g, bypass) ==
  /\ caller[c].pc # "waiting"
  /\ IF ~GroupAsserted(g)
     THEN /\ caller' = [caller EXCEPT ![c] =
                          [IdleCaller EXCEPT !.pc = "failed",
                                             !.err = "AssertionError"]]
          /\ UNCHANGED <<flight, cycles>>
     ELSE IF UseCache(cache[g], bypass)
     THEN /\ caller' = [caller EXCEPT ![c] =
                          [IdleCaller EXCEPT !.pc = "done", !.key = g,
                                             !.bypass = bypass,
                                             !.got = cache[g]]]
          /\ UNCHANGED <<flight, cycles>>
     ELSE IF InFlight(flight[g])
     THEN /\ caller' = [caller EXCEPT ![c] =
                          [IdleCaller EXCEPT !.pc = "waiting", !.key = g,
                                             !.bypass = bypass,
                                             !.cycle = cycles[g]]]
          /\ UNCHANGED <<flight, cycles>>
     ELSE /\ cycles[g] < MaxCycles
          /\ cycles' = [cycles EXCEPT ![g] = @ + 1]
          /\ flight' = [flight EXCEPT ![g] =
                          [IdleFlight EXCEPT !.st = "Discovering"]]
          /\ caller' = [caller EXCEPT ![c] =
                          [IdleCaller EXCEPT !.pc = "waiting", !.key = g,
                                             !.bypass = bypass,
                                             !.cycle = cycles[g] + 1]]
  /\ UNCHANGED <<discoveryFrame, static_base_url, staticReturned, cache>>

\* StaticDiscovery.discover (static.py 8-9); Idle -> Demanding (4.4).
StaticDiscover(g) ==
  /\ flight[g].st = "Discovering"
  /\ LET e == StaticEndpoint(static_base_url) IN
     /\ staticReturned' = staticReturned \cup {e}
     /\ flight' = [flight EXCEPT ![g].st = "Demanding", ![g].endpoint = e]
  /\ UNCHANGED <<discoveryFrame, static_base_url, caller, cache, cycles>>

\* Demander.ademand returns token t (types.py 31-47).
DemandReturns(g, t) ==
  /\ flight[g].st = "Demanding"
  /\ flight' = [flight EXCEPT ![g] = ClaimCall(flight[g], t)]
  /\ UNCHANGED <<discoveryFrame, static_base_url, staticReturned, caller,
                 cache, cycles>>

\* Demander.ademand fails.
DemandFails(g) ==
  /\ flight[g].st = "Demanding"
  /\ flight' = [flight EXCEPT ![g] = DemandFailure(flight[g])]
  /\ caller' = IF flight'[g].st = "Failed"
               THEN Deliver(g, NoMapping, "DemandError")
               ELSE caller
  /\ UNCHANGED <<discoveryFrame, static_base_url, staticReturned, cache,
                 cycles>>

\* Claimer.aclaim returns the mapping (types.py 94-113); it is stored under
\* the group key (4.5).
ClaimReturns(g, mapping) ==
  /\ flight[g].st = "Claiming"
  /\ flight' = [flight EXCEPT ![g].st = "Configured", ![g].mapping = mapping]
  /\ cache' = [cache EXCEPT ![g] = mapping]
  /\ caller' = Deliver(g, mapping, NoExc)
  /\ UNCHANGED <<discoveryFrame, static_base_url, staticReturned, cycles>>

\* Claimer.aclaim fails.
ClaimFails(g) ==
  /\ flight[g].st = "Claiming"
  /\ flight' = [flight EXCEPT ![g].st = "Failed", ![g].err = "ClaimError"]
  /\ caller' = Deliver(g, NoMapping, "ClaimError")
  /\ UNCHANGED <<discoveryFrame, static_base_url, staticReturned, cache,
                 cycles>>

InitFacade ==
  /\ strict = FALSE
  /\ session = 0
  /\ Fresh
  /\ beacons = <<>>
  /\ static_base_url \in BaseUrls
  /\ FacadeIdle

NextFacade ==
  \/ \E c \in Callers, g \in Groups \cup {Undefined}, bypass \in BOOLEAN :
       FromFakts(c, g, bypass)
  \/ \E g \in Groups : StaticDiscover(g)
  \/ \E g \in Groups, t \in Tokens : DemandReturns(g, t)
  \/ \E g \in Groups : DemandFails(g)
  \/ \E g \in Groups, mapping \in Mappings : ClaimReturns(g, mapping)
  \/ \E g \in Groups : ClaimFails(g)

SpecFacade == InitFacade /\ [][NextFacade]_vars

\* ------------------------------------------------- functions of histories
IsBeacon(d) == d.utf8 /\ d.magic /\ d.json = "beacon"
IsBadJson(d) == d.utf8 /\ d.magic /\ d.json = "invalid"
IsNonMagic(d) == d.utf8 /\ ~d.magic

RECURSIVE BeaconUrls(_)
\* The urls of the well-formed beacons among datagrams ds, in order.
BeaconUrls(ds) ==
  IF ds = <<>> THEN <<>>
  ELSE IF IsBeacon(Head(ds)) THEN <<Head(ds).url>> \o BeaconUrls(Tail(ds))
  ELSE BeaconUrls(Tail(ds))

Range(s) == {s[i] : i \in 1..Len(s)}

RECURSIVE Dedup(_)
\* s with every repetition removed, first occurrences in order.
Dedup(s) ==
  IF s = <<>> THEN <<>>
  ELSE LET front == SubSeq(s, 1, Len(s) - 1)
           last == s[Len(s)]
       IN IF last \in Range(front) THEN Dedup(front)
          ELSE Append(Dedup(front), last)

ProbedUrls == [i \in 1..Len(probed) |-> probed[i].url]

\* adiscover takes the head of the queue and handles it.
ReadsHead ==
  /\ pc = "get"
  /\ read_queue # <<>>
  /\ read_queue' = Tail(read_queue)

\* ----------------------------------------------------------------- claims
\* C1: first success wins.  adiscover returns the endpoint of the first
\* beacon, in arrival order and after deduplication, whose probe succeeds:
\* the probes started are a prefix of the deduplicated beacons received, all
\* but the last failed, and no probe is started after the successful one.
FirstSuccessWins ==
  /\ \A i \in 1..Len(probed) :
       probed[i].outcome = "ok" => i = Len(probed) /\ pc = "returned"
  /\ pc = "returned" =>
       /\ Len(probed) >= 1
       /\ probed[Len(probed)].outcome = "ok"
       /\ result = EndpointOf(probed[Len(probed)].url)
       /\ \A i \in 1..(Len(probed) - 1) : probed[i].outcome = "failed"
  /\ Len(probed) <= Len(Dedup(BeaconUrls(received)))
  /\ ProbedUrls = SubSeq(Dedup(BeaconUrls(received)), 1, Len(probed))

\* C1 witness: u1 failed, u2 succeeded, a third distinct beacon arrived and
\* was never probed.
FirstSuccessWinsWitness ==
  /\ pc = "returned"
  /\ Len(probed) = 2
  /\ probed[1].outcome = "failed"
  /\ Len(Dedup(BeaconUrls(received))) = 3
  /\ ProbedUrls = <<"u1", "u2">>
  /\ Len(read_queue) = 1 /\ IsBeacon(read_queue[1]) /\ read_queue[1].url = "u3"
  /\ genListen = "done"

\* C2: deduplication.  In every session alisten_pure has yielded exactly the
\* beacons alisten yielded with every repeated url removed, first occurrences
\* in order, and the seen-set holds exactly the urls yielded in this session.
DedupYields ==
  /\ pureYielded = Dedup(listenYielded)
  /\ already_detected = Range(pureYielded)

\* C2 witness: [u1, u2, u1, u3] gives [u1, u2, u3], in a second session.
DedupYieldsWitness ==
  /\ session = 2
  /\ listenYielded = <<"u1", "u2", "u1", "u3">>
  /\ pureYielded = <<"u1", "u2", "u3">>

\* C3: cancelling alisten while it waits in read_queue.get leaves the socket
\* and the transport each closed by exactly one close call.
CancelledReceiveClosesOnce ==
  cancelAt = "get" => sCloseCalls = 1 /\ tCloseCalls = 1

\* C4: a datagram with the magic phrase and a remainder that is no JSON is
\* skipped in lenient mode (nothing yielded, the listener waits for the next
\* datagram, socket open) and ends the sequence with the decode error in
\* strict mode.
StrictVsLenientJson ==
  [][ReadsHead /\ IsBadJson(Head(read_queue)) =>
       IF strict
       THEN /\ pc' = "raised"
            /\ exc' = "JSONDecodeError"
            /\ listenExc' = "JSONDecodeError"
            /\ genListen' = "done"
       ELSE /\ pc' = "get"
            /\ genListen' = "active"
            /\ listenYielded' = listenYielded
            /\ sock' = "open" /\ transport' = "open"
            /\ exc' = NoExc]_vars

\* C4 witness: lenient mode, a malformed frame first and a beacon yielded
\* after it.
StrictVsLenientJsonWitness ==
  /\ ~strict
  /\ Len(received) = 2
  /\ IsBadJson(received[1])
  /\ listenYielded = <<"u1">>

\* C5: when a strict-mode decode error ends the beacon sequence, adiscover
\* fails with DiscoveryError.
StrictEndIsDiscoveryError ==
  strict /\ listenExc = "JSONDecodeError" => exc = "DiscoveryError"

\* C6: in lenient mode a datagram that is not valid UTF-8 does not end the
\* beacon sequence.
LenientSkipsBadUtf8 ==
  ~strict => listenExc # "UnicodeDecodeError"

\* C7: in lenient mode a datagram whose JSON does not form a Beacon does not
\* end the beacon sequence.
LenientSkipsNonBeacon ==
  ~strict => listenExc \notin {"ValidationError", "TypeError"}

\* C8: a datagram of text that does not start with the magic phrase yields
\* nothing and does not end the sequence, in either mode: the listener waits
\* for the next datagram.
NonMagicSkipped ==
  [][ReadsHead /\ IsNonMagic(Head(read_queue)) =>
       /\ pc' = "get"
       /\ genListen' = "active"
       /\ listenYielded' = listenYielded
       /\ sock' = "open" /\ transport' = "open"
       /\ exc' = NoExc /\ listenExc' = NoExc]_vars

\* C8 witness: strict mode, a frame without the magic phrase that would
\* otherwise be a beacon for u1, then a beacon for u2, which is yielded.
NonMagicSkippedWitness ==
  /\ strict
  /\ Len(received) = 2
  /\ IsNonMagic(received[1]) /\ received[1].json = "beacon"
  /\ listenYielded = <<"u2">>

\* C9: when adiscover has returned the winning endpoint, the socket and the
\* transport of its listen session are closed.
ReturnedMeansClosed ==
  pc = "returned" => sock = "closed" /\ transport = "closed"

\* C10: once a cancellation by the caller has ended adiscover, at whichever
\* suspension point, the socket is closed and no transport is left open.
CancelledMeansClosed ==
  cancelAt # "none" => sock = "closed" /\ transport # "open"


\* C11: whenever alisten ends through a propagated error after the socket was
\* created (a strict-mode decode or parse error, a failure to bind, a failure
\* while creating the datagram endpoint), the socket has been closed by
\* exactly one close call, the transport, where one exists, too, and the
\* error is not replaced by one raised in the cleanup.
TerminalErrorReleasesOnce ==
  (/\ genListen = "done"
   /\ cancelAt = "none"
   /\ listenExc \notin {NoExc, "GeneratorExit"}) =>
     /\ sCloseCalls = 1
     /\ transport # "unbound" => tCloseCalls = 1
     /\ listenExc # "UnboundLocalError"

\* C12: exhaustion.  When the beacon sequence has ended without an error and
\* every probe failed, adiscover has failed with DiscoveryError and returned
\* no endpoint; and it raises DiscoveryError in no other case.
ExhaustionRaises ==
  LET allFailed == \A i \in 1..Len(probed) : probed[i].outcome = "failed"
      ended == pc \in {"returned", "raised"}
  IN /\ (ended /\ allFailed) =>
          /\ pc = "raised" /\ exc = "DiscoveryError"
          /\ result = NoEndpoint
          /\ beacons = <<>>
     /\ exc = "DiscoveryError" => ended /\ allFailed /\ beacons = <<>>
     /\ pc = "returned" => result # NoEndpoint

\* C12 witness: two beacons, both probes failed, the sequence ended.
ExhaustionRaisesWitness ==
  /\ ProbedUrls = <<"u1", "u2">>
  /\ probed[1].outcome = "failed" /\ probed[2].outcome = "failed"
  /\ beacons = <<>>
  /\ pc = "raised" /\ exc = "DiscoveryError"

\* C13: grant protocol ordering.  In every run the Claimer is invoked only
\* after the Demander returned a token for the same endpoint, and with
\* exactly that token; when the Demander fails the Claimer is not invoked and
\* the run ends Failed, without a mapping, never Configured.
GrantOrdering ==
  \A g \in Groups :
    LET f == flight[g] IN
    /\ f.claimToken # NoToken =>
         /\ f.token # NoToken
         /\ f.claimToken = f.token
         /\ f.endpoint # NoEndpoint
         /\ f.claimEndpoint = f.endpoint
    /\ f.st \in {"Claiming", "Configured"} <=> f.claimToken # NoToken /\ f.err = NoExc
    /\ f.err = "DemandError" =>
         f.st = "Failed" /\ f.claimToken = NoToken /\ f.token = NoToken
    /\ f.st = "Failed" <=> f.err # NoExc
    /\ f.mapping # NoMapping <=> f.st = "Configured"

\* C13 witness: one run Configured after a claim with the demanded token t2,
\* another Failed in the demand with no claim made.
GrantOrderingWitness ==
  /\ flight["groupA"].st = "Configured"
  /\ flight["groupA"].token = "t2" /\ flight["groupA"].claimToken = "t2"
  /\ flight["groupB"].st = "Failed"
  /\ flight["groupB"].err = "DemandError"
  /\ flight["groupB"].claimToken = NoToken

\* C14: single flight.  All callers waiting for a group key wait for the one
\* cycle of that key that is in flight, so concurrent resolves of a key with
\* no cached value run one cycle; callers served by the same cycle received
\* the identical mapping, that of the cycle of their own key.
SingleFlight ==
  \A c1 \in Callers :
    LET a == caller[c1] IN
    /\ a.pc = "waiting" =>
         /\ a.key \in Groups
         /\ InFlight(flight[a.key])
         /\ a.cycle = cycles[a.key]
    /\ (a.pc = "done" /\ a.cycle # 0 /\ a.cycle = cycles[a.key]
        /\ ~InFlight(flight[a.key])) =>
         a.got = flight[a.key].mapping /\ a.got # NoMapping
    /\ \A c2 \in Callers :
         LET b == caller[c2] IN
         (a.pc = "done" /\ b.pc = "done" /\ a.key = b.key
          /\ a.cycle # 0 /\ a.cycle = b.cycle) => a.got = b.got

\* C14 witness: both callers resolved groupA without a cached value and were
\* served by the one cycle run for it, with the same mapping.
SingleFlightWitness ==
  /\ \A c \in Callers :
       /\ caller[c].pc = "done" /\ caller[c].key = "groupA"
       /\ caller[c].cycle = 1 /\ caller[c].got = "m2"
       /\ ~caller[c].bypass
  /\ cycles["groupA"] = 1
  /\ cycles["groupB"] = 0

\* A call of from_fakts by caller c for group g.
Calls(c, g) ==
  /\ caller[c].pc # "waiting"
  /\ caller'[c] # caller[c]
  /\ caller'[c].key = g

StaticDiscoveryFixed ==
  /\ \A e \in staticReturned : e.base_url = static_base_url
  /\ Cardinality(staticReturned) <= 1
  /\ \A g \in Groups :
       /\ flight[g].st \notin {"Idle", "Discovering"} =>
            /\ flight[g].endpoint.base_url = static_base_url
            /\ flight[g].endpoint \in staticReturned
       /\ flight[g].err \in {NoExc, "DemandError", "ClaimError"}
  /\ sock = "none" /\ transport = "unbound"
  /\ genListen = "none" /\ genPure = "none"
  /\ probed = <<>>

\* C16 witness: a base_url other than the default is configured and discover
\* has been called three times.
StaticDiscoveryFixedWitness ==
  /\ static_base_url # DefaultBaseUrl
  /\ staticReturned = {[base_url |-> static_base_url]}
  /\ cycles["groupA"] = 2 /\ cycles["groupB"] = 1
  /\ \A g \in Groups : flight[g].st = "Demanding"

\* C17: sequential probing in arrival order.  At most one probe is in
\* flight, the one started last, and only while adiscover waits for it; the
\* queue holds the datagrams not yet read in the order they were received;
\* the probes were started in the order in which the distinct beacon urls
\* were first received.
SequentialInOrder ==
  /\ \A i \in 1..Len(probed) :
       probed[i].outcome = "pending" => i = Len(probed) /\ pc = "probe"
  /\ pc = "probe" => Len(probed) >= 1 /\ probed[Len(probed)].outcome = "pending"
  /\ Len(read_queue) <= Len(received)
  /\ read_queue = SubSeq(received, Len(received) - Len(read_queue) + 1,
                         Len(received))
  /\ ProbedUrls =
       Dedup(BeaconUrls(SubSeq(received, 1,
                               Len(received) - Len(read_queue))))

\* C17 witness: u2, u1, u2, u3 were received; u2 and u1 were probed one after
\* the other and the probe of u3 is in flight.
SequentialInOrderWitness ==
  /\ BeaconUrls(received) = <<"u2", "u1", "u2", "u3">>
  /\ ProbedUrls = <<"u2", "u1", "u3">>
  /\ probed[3].outcome = "pending"
  /\ pc = "probe"

\* C18: probe failures alone never end discovery.  In lenient mode a failed
\* probe, of whatever error kind, leaves adiscover listening with its socket
\* open; adiscover returns only with a successful probe and never raises
\* DiscoveryError.
ProbeFailureGoesOn ==
  [][~strict =>
       /\ (/\ pc = "probe"
           /\ Len(probed') = Len(probed)
           /\ probed'[Len(probed)].outcome = "failed") =>
            /\ pc' = "get"
            /\ exc' = NoExc /\ result' = NoEndpoint
            /\ genListen' = "active" /\ genPure' = "active"
            /\ sock' = "open" /\ transport' = "open"
       /\ exc' # "DiscoveryError"
       /\ pc' = "returned" =>
            Len(probed') >= 1 /\ probed'[Len(probed')].outcome = "ok"]_vars

\* C18 witness: lenient mode, three probes failed, adiscover still listens.
ProbeFailureGoesOnWitness ==
  /\ ~strict
  /\ Len(probed) = 3
  /\ \A i \in 1..3 : probed[i].outcome = "failed"
  /\ pc = "get" /\ transport = "open" /\ cancelAt = "none"

\* C19: bounded event queue.  Whenever datagrams are buffered between
\* datagram_received and the listener loop, the queue has a capacity and
\* holds no more than it.
BufferedWithinCapacity ==
  read_queue # <<>> => QueueMaxsize > 0 /\ Len(read_queue) <= QueueMaxsize

\* C20: within one adiscover call each distinct url is probed at most once,
\* also when it is advertised again after its probe failed: every url probed
\* is in the seen-set, and no two probes have the same url.
ProbedOnce ==
  /\ \A i \in 1..Len(probed) : probed[i].url \in already_detected
  /\ \A i, j \in 1..Len(probed) : probed[i].url = probed[j].url => i = j

\* C20 witness: the probes of u1 and u2 failed, u1 was advertised again and
\* read, and no third probe was started.
ProbedOnceWitness ==
  /\ listenYielded = <<"u1", "u2", "u1">>
  /\ ProbedUrls = <<"u1", "u2">>
  /\ probed[1].outcome = "failed" /\ probed[2].outcome = "failed"
  /\ pc = "get" /\ read_queue = <<>>
====
